---- MODULE Spec2Model ----
(***************************************************************************)
(* Cosmic Clock (src/src/main.ts, the revision of lines 541-1325): the     *)
(* simulated clock (TimeController), the GUI callbacks, the per-frame      *)
(* callback with its three panels, the weather side channel and the solar  *)
(* panel's trail ring buffers.                                             *)
(*                                                                         *)
(* Units.  performance.now() is a fractional number of milliseconds; the   *)
(* model counts it in steps of 1/Res ms, so perfNow, lastRealMs,           *)
(* lastFetchMs and dtReal are integers in that unit (dtReal, which the     *)
(* code keeps in seconds, is the same quantity scaled by 1000 * Res).      *)
(* Date values are whole milliseconds, as TimeClip makes them.             *)
(***************************************************************************)
EXTENDS Integers, Sequences, FiniteSets, TLC

\* ---------------------------------------------------------------- bounds
Res == 2            \* steps of performance.now() per millisecond
MaxPerf == 2        \* performance.now() runs over 0..MaxPerf steps
MaxSkews == 1       \* times performance.now() may step back (SpecSkew only)
MaxEvents == 3      \* GUI events and frames explored in one run of main()
MaxPushes == 36     \* frames of the solar panel explored from each starting point
MaxEarthSteps == 3  \* simulated times, EarthStepMs apart, the Earth panel is given
MaxCoord == 1       \* vector components run over -MaxCoord .. MaxCoord

\* ----------------------------------------------------------- environment
WallOrigin == 1000000          \* Date.now() at performance.now() = 0, in ms
PerfTimes == 0 .. MaxPerf

\* new Date() / Date.now(): whole milliseconds
WallNow(p) == WallOrigin + (p \div Res)

\* The time value a Date gets from a number (ECMAScript TimeClip): the
\* fraction is dropped, toward zero.  num / den is the number given.  The
\* values here stay far inside +-8.64e15 ms, where TimeClip gives NaN.
TimeClip(num, den) ==
  IF num >= 0 THEN num \div den ELSE -((-num) \div den)

\* ----------------------------------------------------------- Date objects
DateIds == {1, 2, 3, 4}
NullRef == 0

\* new Date(...): the lowest object not in use
FreshDate(live) ==
  CHOOSE o \in DateIds \ live : \A p \in DateIds \ live : o <= p

VARIABLES
  perfNow,      \* the environment's performance.now()
  heap,         \* Date objects: DateIds -> time value in ms
  lastRealMs,   \* TimeController.lastRealMs
  paused,       \* TimeController.paused
  speed,        \* TimeController.speed
  simTime,      \* TimeController.simTime (a reference to a Date)
  t,            \* the AstroClockTime the last tick() returned
  params,       \* main: the GUI's parameter object
  booted,       \* main: buildEarthPanel resolved, first frame requested
  rafPending,   \* main: a requestAnimationFrame(frame) callback is pending
  panelT,       \* what each panel's onFrame last received
  weather,      \* main: WeatherState
  fetches,      \* outstanding fetch() continuations of maybeFetchWeather
  weatherLog,   \* history: when the last request started, what was loaded
  trails,       \* buildSolarPanel: Map<Body, Trail>
  scene,        \* buildSolarPanel: mesh positions
  earth,        \* buildEarthPanel: rotations, light, marker, overlay
  universe,     \* buildUniversePanel: galaxy transform, overlay
  calc,         \* a function of the program applied on its own: inputs, results
  lastOp,       \* history: the operation that produced this state
  resetHold,    \* history: value resetNow() set while paused, until resumed
  pausedTick,   \* history: performance.now() of the last tick() that found paused set
  skews,        \* history: times performance.now() stepped back
  events        \* history: GUI events and frames so far

clockVars   == <<heap, lastRealMs, paused, speed, simTime, t>>
appVars     == <<params, booted, rafPending, panelT>>
weatherVars == <<weather, fetches, weatherLog>>
solarVars   == <<trails, scene>>
viewVars    == <<earth, universe, calc>>
vars == <<perfNow, clockVars, appVars, weatherVars, solarVars, viewVars, lastOp, resetHold,
          pausedTick, skews, events>>

SimMs == heap[simTime]          \* this.simTime.getTime()
NoHold == -1

\* ------------------------------------------------------- TimeController
GuiSpeeds == {1, 60, 3600, 86400}
ClientSpeeds == GuiSpeeds \cup {0}

AdvancesAlways(isPaused) == TRUE

\* tick(): `if (!this.paused)`
Advances(isPaused) == ~isPaused

TickAnchor_KeptWhilePaused(now, isPaused) == IF isPaused THEN lastRealMs ELSE now

\* tick(): this.lastRealMs = realNowMs, paused or not
TickAnchor(now, isPaused) == now

AdvancedSimMs_Backwards(simMs, dt, spd) == TimeClip(simMs * Res - dt * spd, Res)

AdvancedSimMs_ZeroAsOne(simMs, dt, spd) ==
  TimeClip(simMs * Res + dt * (IF spd = 0 THEN 1 ELSE spd), Res)

\* tick(): dtSimMs = dtReal * 1000 * speed;
\*         new Date(this.simTime.getTime() + dtSimMs)
\* (dtReal * 1000 is dt / Res milliseconds)
AdvancedSimMs(simMs, dt, spd) == TimeClip(simMs * Res + dt * spd, Res)

SnapshotSource_BeforeUpdate(oldSim, newSim) == oldSim

\* tick(): `sim: new Date(this.simTime)` copies the updated simTime
SnapshotSource(oldSim, newSim) == newSim

\* tick() reading performance.now() = now with this.paused = isPaused and
\* this.speed = spd: the controller's fields after it and the value it returns
TickWith(now, isPaused, spd) ==
  LET dt     == now - lastRealMs
      wall   == WallNow(now)
      simObj == IF Advances(isPaused) THEN FreshDate({simTime, t.sim}) ELSE simTime
      heap1  == IF Advances(isPaused)
                  THEN [heap EXCEPT ![simObj] = AdvancedSimMs(heap[simTime], dt, spd)]
                  ELSE heap
      copy   == FreshDate({simTime, simObj, t.sim})
      heap2  == [heap1 EXCEPT ![copy] = heap1[SnapshotSource(simTime, simObj)]]
  IN [lastRealMs |-> TickAnchor(now, isPaused), simTime |-> simObj, heap |-> heap2,
      ret |-> [now |-> wall, sim |-> copy, dtReal |-> dt]]

TickOutcome(now) == TickWith(now, paused, speed)

ResetNowMs_ConstructionTime(wallMs) == WallNow(0)

\* resetNow(): this.simTime = new Date()
ResetNowMs(wallMs) == wallMs

ResetOutcome ==
  LET o == FreshDate({simTime, t.sim})
  IN [simTime |-> o, heap |-> [heap EXCEPT ![o] = ResetNowMs(WallNow(perfNow))]]

\* The heap once a handler has returned: the Dates no reference reaches are
\* collected and the others renumbered, simTime first, then t.sim.  s and r
\* are the references simTime and t.sim hold into the heap h.
Collected(s, r, h) ==
  LET r1 == IF r = NullRef THEN NullRef ELSE IF r = s THEN 1 ELSE 2
  IN [simTime |-> 1, tsim |-> r1,
      heap |-> [o \in DateIds |-> IF o = 1 THEN h[s]
                                  ELSE IF o = 2 /\ r1 = 2 THEN h[r] ELSE 0]]


\* ------------------------------------------------------------- weather
DEFAULT_LAT == 389717          \* 38.9717 degrees, in 1e-4 degrees
LatFar == DEFAULT_LAT + 10000  \* one degree away
LatValues == {DEFAULT_LAT, LatFar}
DefaultLon == 0 - 952353       \* DEFAULT_LON = -95.2353 degrees
LonNear == DefaultLon + 8       \* 0.0008 degrees away: within the 0.001 of `moved`
LonValues == {DefaultLon, LonNear}

Undefined == -1                \* `undefined` in a numeric or Date field
NoError == "undefined"         \* `undefined` in WeatherState.error
IntervalMs == 10 * 60 * 1000   \* maybeFetchWeather: intervalMs
MovedLimit == 10               \* maybeFetchWeather: 0.001 degrees

Abs(x) == IF x < 0 THEN -x ELSE x

\* json.current of a response that parsed; a field that is not a number
\* arrives as Undefined
Responses ==
  { [temperature_2m |-> Undefined, wind_speed_10m |-> 14, weather_code |-> 61, is_day |-> 1] }

\* the message of what fetch(), the status check or res.json() throws
Failures == {"Weather fetch failed: 500"}

Moved_AnyDifference(w, lat, lon) == w.lat # lat \/ w.lon # lon

\* maybeFetchWeather: `moved`
Moved(w, lat, lon) == Abs(w.lat - lat) + Abs(w.lon - lon) > MovedLimit

MaybeFetchWeather_NoInflightGuard(w, fs, lat, lon, force) ==
  IF ~w.enabled THEN [weather |-> w, fetches |-> fs]
  ELSE
    LET w1 == IF Moved(w, lat, lon)
                THEN [w EXCEPT !.lat = lat, !.lon = lon,
                               !.updatedAt = Undefined, !.lastFetchMs = 0]
                ELSE w
    IN IF ~force /\ perfNow - w1.lastFetchMs < IntervalMs * Res /\ w1.updatedAt # Undefined
         THEN [weather |-> w1, fetches |-> fs]
         ELSE [weather |-> [w1 EXCEPT !.inflight = TRUE, !.error = NoError],
               fetches |-> Append(fs, [t |-> perfNow, lat |-> lat, lon |-> lon])]

\* maybeFetchWeather up to its first await: the WeatherState it leaves and
\* the outstanding fetches (one more when it starts a request)
MaybeFetchWeather(w, fs, lat, lon, force) ==
  IF ~w.enabled THEN [weather |-> w, fetches |-> fs]
  ELSE
    LET tNow == perfNow
        w1 == IF Moved(w, lat, lon)
                THEN [w EXCEPT !.lat = lat, !.lon = lon,
                               !.updatedAt = Undefined, !.lastFetchMs = 0]
                ELSE w
    IN IF w1.inflight THEN [weather |-> w1, fetches |-> fs]
       ELSE IF ~force /\ tNow - w1.lastFetchMs < IntervalMs * Res
                      /\ w1.updatedAt # Undefined
         THEN [weather |-> w1, fetches |-> fs]
         ELSE [weather |-> [w1 EXCEPT !.inflight = TRUE, !.error = NoError],
               fetches |-> Append(fs, [t |-> tNow, lat |-> lat, lon |-> lon])]

RemoveAt(s, i) == SubSeq(s, 1, i - 1) \o SubSeq(s, i + 1, Len(s))

\* History of the requests: lastStart is the performance.now() at which
\* the most recent request started (Never before the first), movedSince
\* whether a call has seen the location moved since then, and loadedLat,
\* loadedLon the location in the URL of the request whose result was
\* stored last.  The history is kept in the specifications whose
\* properties read it (recording), and stays as it starts in the others.
Never == -1
NoWeatherLog ==
  [recording |-> TRUE, lastStart |-> Never, movedSince |-> FALSE,
   loadedLat |-> Undefined, loadedLon |-> Undefined]
WeatherLogOff == [NoWeatherLog EXCEPT !.recording = FALSE]

\* the history after maybeFetchWeather(w, lat, lon, ...) that left the
\* outstanding fetches fs1
LoggedCall(lg, w, fs1, lat, lon) ==
  IF ~lg.recording THEN lg
  ELSE IF Len(fs1) > Len(fetches)
    THEN [lg EXCEPT !.lastStart = perfNow, !.movedSince = FALSE]
    ELSE [lg EXCEPT !.movedSince = @ \/ (w.enabled /\ Moved(w, lat, lon))]

\* the history after the request for (lat, lon) stored its result
LoggedResult(lg, lat, lon) ==
  IF ~lg.recording THEN lg ELSE [lg EXCEPT !.loadedLat = lat, !.loadedLon = lon]

\* History of the ticks: the performance.now() of the last tick() that
\* found the clock paused, Never before the first, Unrecorded in the
\* specifications that keep no such history.
Unrecorded == -2
LoggedTick(pt, isPaused) ==
  IF pt = Unrecorded THEN pt ELSE IF isPaused THEN perfNow ELSE pt

\* --------------------------------------------------------- solar panel
TRAIL_POINTS == 512
MantissaBits == 24             \* significand of a Float32Array element
MoonExaggeration == 60

Bodies == <<"Mercury", "Venus", "Earth", "Mars", "Jupiter", "Saturn", "Uranus", "Neptune">>
BodySet == {Bodies[i] : i \in 1 .. Len(Bodies)}

\* Vectors are <<x, y, z>> in 1e-6 AU.
Origin == <<0, 0, 0>>

\* aAU of the bodies list, in 1e-3 AU
SemiMajor ==
  [b \in BodySet |->
     CASE b = "Mercury" -> 387 [] b = "Venus" -> 723 [] b = "Earth" -> 1000
       [] b = "Mars" -> 1524 [] b = "Jupiter" -> 5203 [] b = "Saturn" -> 9537
       [] b = "Uranus" -> 19191 [] b = "Neptune" -> 30070]

\* The ephemeris (astronomy-engine) is a deterministic function of body and
\* time.  This stand-in walks four points of a circle tilted out of the
\* equatorial x-y plane, so a vector has all three components.
\* It resolves whole seconds; Drift tells two seconds on the same point apart
\* and, like the provider's doubles, gives coordinates that single precision
\* cannot hold (odd values beyond 2^MantissaBits).
Second(ms) == ms \div 1000
Circle == <<  <<1000, 0, 0>>, <<0, 917, 398>>, <<-1000, 0, 0>>, <<0, -917, -398>>  >>
Drift(ms) == (3 * Second(ms) + 1) % 4096

HelioVector(b, ms) ==
  LET u == Circle[(Second(ms) % 4) + 1]
      a == SemiMajor[b]
  IN << a * u[1] + Drift(ms), a * u[2] + Drift(ms), a * u[3] + Drift(ms) >>

\* GeoVector(Body.Moon, ...): about 0.00257 AU from the Earth
GeoMoonVector(ms) ==
  LET u == Circle[((Second(ms) + 1) % 4) + 1]
  IN << (2570 * u[1]) \div 1000 + Drift(ms), (2570 * u[2]) \div 1000 + Drift(ms),
        (2570 * u[3]) \div 1000 + Drift(ms) >>

astroToThreeVec_StretchedUp(v, scale) == << v[1] * scale, 2 * v[3] * scale, v[2] * scale >>

\* astroToThreeVec: new THREE.Vector3(v.x * scale, v.z * scale, v.y * scale)
astroToThreeVec(v, scale) == << v[1] * scale, v[3] * scale, v[2] * scale >>

RECURSIVE BitLength(_)
BitLength(n) == IF n = 0 THEN 0 ELSE 1 + BitLength(n \div 2)

RECURSIVE Pow2(_)
Pow2(k) == IF k = 0 THEN 1 ELSE 2 * Pow2(k - 1)

\* The value a Float32Array element keeps of x: the nearest number with a
\* MantissaBits-bit significand, ties to the even one.
Fround(x) ==
  LET m == Abs(x)
      drop == BitLength(m) - MantissaBits
      q == Pow2(drop)
      lo == (m \div q) * q
      r == m - lo
      up == (2 * r > q) \/ (2 * r = q /\ (m \div q) % 2 = 1)
      v == IF up THEN lo + q ELSE lo
  IN IF drop <= 0 THEN x ELSE IF x < 0 THEN -v ELSE v

\* A Float32Array: its length and the elements written so far; the others
\* are still the 0 they were created with.
NewFloat32Array(n) == [length |-> n, data |-> << >>]

Load(buf, j) == IF j \in DOMAIN buf.data THEN buf.data[j] ELSE 0

\* positions[j] = v (a write outside the array is dropped by the typed array)
Store(buf, j, v) ==
  IF j \in 0 .. buf.length - 1
    THEN [buf EXCEPT !.data = (j :> Fround(v)) @@ buf.data]
    ELSE buf

NewTrail == [positions |-> NewFloat32Array(TRAIL_POINTS * 3), index |-> 0, count |-> 0]

NextIndex_NoWrap(i) == i + 1

NextIndex_SkipsSlot(i) == (i + 2) % TRAIL_POINTS

\* pushTrail: trail.index = (i + 1) % TRAIL_POINTS
NextIndex(i) == (i + 1) % TRAIL_POINTS

\* pushTrail: trail.count = Math.min(TRAIL_POINTS, trail.count + 1)
NextCount(c) == IF c + 1 < TRAIL_POINTS THEN c + 1 ELSE TRAIL_POINTS

\* pushTrail(body, pos) on the trail of that body
pushTrail(trail, pos) ==
  LET i  == trail.index
      p0 == Store(trail.positions, 3 * i + 0, pos[1])
      p1 == Store(p0, 3 * i + 1, pos[2])
      p2 == Store(p1, 3 * i + 2, pos[3])
  IN [positions |-> p2, index |-> NextIndex(i), count |-> NextCount(trail.count)]

\* buildSolarPanel's onFrame: mesh.position.set(p.x, 0, p.y) with
\* p = astroToThreeVec(hv, AU), AU = 1
MeshPosition(b, simMs) ==
  LET p == astroToThreeVec(HelioVector(b, simMs), 1)
  IN << p[1], 0, p[2] >>

\* ... and the Moon: Earth's mesh position plus the exaggerated offset
MoonPosition(earthPos, simMs) ==
  LET moonP == astroToThreeVec(GeoMoonVector(simMs), 1)
  IN << earthPos[1] + moonP[1] * MoonExaggeration,
        earthPos[2] + 0 * MoonExaggeration,
        earthPos[3] + moonP[2] * MoonExaggeration >>

\* onFrame's loop `for (const b of bodies)`, from the i-th body on: the
\* trail of each body receives that body's mesh position
RECURSIVE PushBodies(_, _, _)
PushBodies(i, trs, mesh) ==
  IF i > Len(Bodies) THEN trs
  ELSE PushBodies(i + 1, [trs EXCEPT ![Bodies[i]] = pushTrail(@, mesh[Bodies[i]])], mesh)

\* buildSolarPanel's onFrame(t), t.sim holding simMs
SolarOnFrame(trs, simMs) ==
  LET mesh == [b \in BodySet |-> MeshPosition(b, simMs)]
  IN [trails |-> PushBodies(1, trs, mesh),
      scene  |-> [mesh |-> mesh, moon |-> MoonPosition(mesh["Earth"], simMs)]]

\* ---------------------------------------------------------- earth panel
\* Hours are in units of 0.01 h, angles in units of 0.05 degree, the GUI's
\* texture offset and the Sun's altitude in units of 0.1 degree.  The panel
\* multiplies every angle by the same pi / 180; the angles here stay in
\* degrees.
Turn == 7200                       \* 360 degrees
HoursToAngle(h) == h * 3           \* hours * 15
DegToAngle(d) == d * 2             \* a value in 0.1 degree as an angle
DefaultTextureOffset == 1800       \* params.earthTextureOffsetDeg: 180
TextureOffsets == {-1800, -1, 0, 1800}

\* SiderealTime(date): Greenwich sidereal time in [0, 24) hours, 24 h of it
\* passing in a day.  A stand-in for the provider, like the ephemeris above.
SiderealTime(ms) == (ms \div 36000) % 2400

\* GeoVector(Body.Sun, date): the stand-in has the Sun opposite the Earth's
\* heliocentric position
GeoSunVector(ms) ==
  LET hv == HelioVector("Earth", ms) IN << -hv[1], -hv[2], -hv[3] >>

\* Horizon(...).altitude of the Sun for the observer: a stand-in that is
\* below, on and above the horizon as the time goes on, higher for the
\* northern of the two observers
SunAltitude(ms, lat, lon) ==
  (((ms + 1) % 3) - 1) * 100 + (lat - DEFAULT_LAT) \div 100 + (lon - DefaultLon)

EarthSpin_Westward(gstAngle, offAngle) == gstAngle + offAngle

\* earth.rotation.y = -gstRad + offRad
EarthSpin(gstAngle, offAngle) == -gstAngle + offAngle

Daylight_FromHorizon(altitude) == altitude >= 0

\* const daylight = hor.altitude > 0
Daylight(altitude) == altitude > 0

\* weatherCodeLabel(code)
WeatherCodeLabel(code) ==
  CASE code = Undefined -> "Unknown"
    [] code = 0 -> "Clear"
    [] code = 1 -> "Mostly clear"
    [] code = 2 -> "Partly cloudy"
    [] code = 3 -> "Overcast"
    [] code \in {45, 48} -> "Fog"
    [] code \in {51, 53, 55} -> "Drizzle"
    [] code \in {61, 63, 65} -> "Rain"
    [] code \in {66, 67} -> "Freezing rain"
    [] code \in {71, 73, 75} -> "Snow"
    [] code = 77 -> "Snow grains"
    [] code \in {80, 81, 82} -> "Showers"
    [] code \in {85, 86} -> "Snow showers"
    [] code = 95 -> "Thunderstorm"
    [] code \in {96, 99} -> "Thunderstorm + hail"
    [] OTHER -> "Code"

MinuteMs == 60 * 1000

\* the line getWeatherLines shows for the error message e
ErrorLine(e) == << <<"Weather: error", e>> >>

\* main: getWeatherLines() with the GUI parameters pr and the WeatherState
\* w.  A line is kept as the sequence of its parts; the line of loaded
\* weather has the description, the temperature, the wind and the hour and
\* minute of the update, kept as the minute the time value falls in.  (An
\* empty error message is falsy in `if (weather.error)`.)
GetWeatherLines(pr, w) ==
  IF ~pr.weather THEN << <<"Weather: (disabled)">> >>
  ELSE IF w.error # NoError /\ w.error # "" THEN ErrorLine(w.error)
  ELSE IF w.updatedAt = Undefined
    THEN << <<IF w.inflight THEN "Weather: loading" ELSE "Weather: (not loaded yet)">> >>
  ELSE << <<"Weather", WeatherCodeLabel(w.code), w.tempC, w.windKph,
            w.updatedAt \div MinuteMs>> >>

\* the Earth panel as buildEarthPanel leaves it: sunLight at (5, 0, 0),
\* nothing rotated, marker at the origin of the Earth mesh, overlay empty
EarthNew ==
  [rotation |-> Origin, atmoRotation |-> Origin, sunLight |-> <<5, 0, 0>>,
   marker |-> <<0, 0>>, altitude |-> 0, overlay |-> "", weatherLines |-> << >>]

\* buildEarthPanel's onFrame(t), t.sim holding ms.  sunLight holds the
\* direction Earth -> Sun before it is normalised and scaled by 5, marker
\* the latitude and longitude the marker is placed at.
EarthOnFrame(ms, texOff, lat, lon, weatherLines) ==
  LET gv  == GeoSunVector(ms)
      gst == HoursToAngle(SiderealTime(ms))
      off == DegToAngle(texOff)
      alt == SunAltitude(ms, lat, lon)
  IN [rotation     |-> << 0, EarthSpin(gst, off), 0 >>,
      atmoRotation |-> << 0, EarthSpin(gst, off), 0 >>,
      sunLight     |-> astroToThreeVec(<< -gv[1], -gv[2], -gv[3] >>, 1),
      marker       |-> << lat, lon >>,
      altitude     |-> alt,
      overlay      |-> IF Daylight(alt) THEN "daylight" ELSE "night",
      weatherLines |-> weatherLines]

\* The older revision of the panel: the hour angle of the Sun from the
\* sidereal time and the Sun's right ascension, both in hours
HourAngleDeg(gstHours, raHours) ==
  ((HoursToAngle(gstHours - raHours) + 3 * (Turn \div 2)) % Turn) - Turn \div 2

HourAngleSpin_IgnoresRA(gstHours, raHours, texOff) ==
  -HourAngleDeg(gstHours, 0) + DegToAngle(texOff)

\* ... and its spin: ((subsolarLonDeg + texOff) * Math.PI) / 180 with
\* subsolarLonDeg = -haDeg
HourAngleSpin(gstHours, raHours, texOff) ==
  -HourAngleDeg(gstHours, raHours) + DegToAngle(texOff)

\* ------------------------------------------------------- universe panel
\* Ages are in units of 0.1 Gyr, as the GUI steps them; a, z, scale and
\* opacity are in thousandths.
Milli == 1000
DefaultCosmicAge == 138            \* params.cosmicAgeGyr: 13.8
MinCosmicAge == 1                  \* the slider: 0.1 ..
MaxCosmicAge == 400                \* .. 40

Clamp(x, lo, hi) == IF x < lo THEN lo ELSE IF x > hi THEN hi ELSE x

TNorm_OfPresentAge(age) == Clamp((age * Milli) \div DefaultCosmicAge, 0, Milli)

\* Math.min(1, Math.max(0, ageGyr / 30))
TNorm(age) == Clamp((age * Milli) \div 300, 0, Milli)

\* the largest y in lo .. hi with y^3 <= n, by bisection (lo^3 <= n)
RECURSIVE CubeRoot(_, _, _)
CubeRoot(n, lo, hi) ==
  IF lo = hi THEN lo
  ELSE LET mid == (lo + hi + 1) \div 2
       IN IF mid * mid * mid <= n THEN CubeRoot(n, mid, hi) ELSE CubeRoot(n, lo, mid - 1)

\* Math.pow(tNorm, 2 / 3), to the thousandth below: the y with y^3 <= t^2
Pow23(tn) == CubeRoot(tn * tn * Milli, 0, Milli)

\* num / den cut to a whole number, toward zero
Quot(num, den) == IF num >= 0 THEN num \div den ELSE -((-num) \div den)

\* Math.exp(x) for x in thousandths, -1 <= x <= 0: the series
\* 1 + x + x^2/2! + ..., each term cut to the thousandth, until the terms
\* vanish.  term is x^(k-1)/(k-1)!.
RECURSIVE ExpSeries(_, _, _)
ExpSeries(x, k, term) ==
  IF term = 0 THEN 0
  ELSE term + ExpSeries(x, k + 1, Quot(term * x, k * Milli))

Exp(x) == ExpSeries(x, 1, Milli)

\* a = Math.min(1, Math.max(0.01, 0.6 * aMatter + 0.4 * aLambda))
ScaleFactor(age) ==
  LET tn      == TNorm(age)
      aMatter == Pow23(tn)
      aLambda == Exp(Quot((tn - Milli) * 7, 10))
  IN Clamp(Quot(600 * aMatter + 400 * aLambda, Milli), 10, Milli)

EpochLabel_ThresholdInEarlierBand(age) ==
  IF age <= 5 THEN "recombination / dark ages"
  ELSE IF age <= 15 THEN "first galaxies"
  ELSE IF age <= 50 THEN "peak star formation"
  ELSE IF age <= 100 THEN "maturing cosmic web"
  ELSE IF age <= 200 THEN "dark energy era"
  ELSE "far future"

\* let epochLabel = 'late universe', then the chain if (ageGyr < 0.5) ...
\* else if ... else ..., whose last branch has no condition
EpochLabel(age) ==
  IF age < 5 THEN "recombination / dark ages"
  ELSE IF age < 15 THEN "first galaxies"
  ELSE IF age < 50 THEN "peak star formation"
  ELSE IF age < 100 THEN "maturing cosmic web"
  ELSE IF age < 200 THEN "dark energy era"
  ELSE "far future"

\* the universe panel as buildUniversePanel leaves it
UniverseNew ==
  [a |-> 0, z |-> 0, scale |-> Milli, opacity |-> 800, rot |-> 0, age |-> 0, epoch |-> ""]

\* buildUniversePanel's onFrame(), getCosmicAgeGyr() giving age and
\* performance.now() giving perf; galaxy.rotation.y is perf / (10000 Res)
UniverseOnFrame(age, perf) ==
  LET a == ScaleFactor(age)
  IN [a       |-> a,
      z       |-> (Milli * Milli) \div a - Milli,
      scale   |-> 500 + (a * 800) \div Milli,
      opacity |-> 200 + (600 * a) \div Milli,
      rot     |-> perf,
      age     |-> age,
      epoch   |-> EpochLabel(age)]

\* ------------------------------------------- functions applied on their own
NoCalc == [op |-> "none"]

\* frames the solar panel has already run where its exploration starts:
\* a new panel, a trail about to fill, a trail about to wrap a second time
SolarStarts == {0, 500, 1020}

\* -------------------------------------------------------------- panels
Panels == <<"earth", "solar", "universe">>
PanelSet == {Panels[i] : i \in 1 .. Len(Panels)}
NoSnapshot == [now |-> 0, sim |-> 0, dtReal |-> 0]

NoPanel == "none"
\* the panels whose onFrame queries the ephemeris (Astronomy.GeoVector,
\* Astronomy.HelioVector), which throws for a time it does not accept
EphemerisPanels == {"earth", "solar"}

PanelArg_TickPerPanel(tk, i) == IF i = 1 THEN tk ELSE [tk EXCEPT !.dtReal = 0]

\* frame(): `p.onFrame(t)`, the i-th panel of the loop getting the t of
\* this frame's single tick()
PanelArg(tk, i) == tk

\* frame(): the loop over the panels, from the i-th on.  st holds what the
\* panels write: panelT, trails, scene, earth, universe, and the WeatherState
\* they read.  The onFrame of the panel st.thrower throws at its first
\* ephemeris query, which ends the loop; NoPanel when none throws.  hp is the heap the
\* Dates live in.
RECURSIVE RunPanels(_, _, _, _)
RunPanels(i, tk, hp, st) ==
  IF i > Len(Panels) \/ Panels[i] = st.thrower THEN st
  ELSE
    LET arg  == PanelArg(tk, i)
        got  == [now |-> arg.now, sim |-> hp[arg.sim], dtReal |-> arg.dtReal]
        st1  == [st EXCEPT !.panelT[Panels[i]] = got]
        sol  == SolarOnFrame(st.trails, hp[arg.sim])
        st2  == CASE Panels[i] = "solar" ->
                       [st1 EXCEPT !.trails = sol.trails, !.scene = sol.scene]
                  [] Panels[i] = "earth" ->
                       [st1 EXCEPT !.earth = EarthOnFrame(hp[arg.sim], params.earthTextureOffsetDeg,
                                                          params.lat, params.lon,
                                                          GetWeatherLines(params, st.weather))]
                  [] Panels[i] = "universe" ->
                       [st1 EXCEPT !.universe = UniverseOnFrame(params.cosmicAgeGyr, perfNow)]
    IN RunPanels(i + 1, tk, hp, st2)

\* ---------------------------------------------------------------- Init
\* main() up to the await of buildEarthPanel: the controller, the weather
\* state and the GUI exist, no frame has run.
InitApp ==
  /\ perfNow = 0
  /\ heap = [o \in DateIds |-> IF o = 1 THEN WallNow(0) ELSE 0]
  /\ lastRealMs = 0
  /\ paused = FALSE
  /\ speed = 1
  /\ simTime = 1
  /\ t = [now |-> 0, sim |-> NullRef, dtReal |-> 0]
  /\ params = [paused |-> FALSE, speed |-> 1, lat |-> DEFAULT_LAT, lon |-> DefaultLon,
               earthTextureOffsetDeg |-> DefaultTextureOffset,
               cosmicAgeGyr |-> DefaultCosmicAge, weather |-> TRUE]
  /\ booted = FALSE
  /\ rafPending = FALSE
  /\ weather = [enabled |-> TRUE, lastFetchMs |-> 0, inflight |-> FALSE,
                lat |-> DEFAULT_LAT, lon |-> DefaultLon,
                tempC |-> Undefined, windKph |-> Undefined, code |-> Undefined,
                isDay |-> "undefined", updatedAt |-> Undefined, error |-> NoError]
  /\ fetches = << >>
  /\ earth = EarthNew
  /\ universe = UniverseNew
  /\ resetHold = NoHold
  /\ skews = 0

\* the snapshot the n-th frame (counting from 0) hands to the solar panel,
\* at one simulated second per frame
SolarSnapshot(n) == [now |-> WallNow(0), sim |-> WallNow(0) + n * 1000, dtReal |-> 0]

\* the solar panel as buildSolarPanel leaves it: no frame has run
SolarNew ==
  [frames |-> 0,
   trails |-> [b \in BodySet |-> NewTrail],
   scene  |-> [mesh |-> [b \in BodySet |-> Origin], moon |-> Origin]]

\* one more call of the panel's onFrame
SolarStep(st) ==
  LET sol == SolarOnFrame(st.trails, SolarSnapshot(st.frames).sim)
  IN [frames |-> st.frames + 1, trails |-> sol.trails, scene |-> sol.scene]

\* the panel st after the calls of onFrame that bring it to frame `until`
\* (the calls are replayed in two halves to keep the evaluation shallow)
RECURSIVE SolarRun(_, _)
SolarRun(st, until) ==
  IF st.frames >= until THEN st
  ELSE IF st.frames + 1 = until THEN SolarStep(st)
  ELSE SolarRun(SolarRun(st, (st.frames + until) \div 2), until)

SolarAfter(n) == SolarRun(SolarNew, n)

\* no history of requests or of paused ticks is kept
NoHistory ==
  /\ weatherLog = WeatherLogOff
  /\ pausedTick = Unrecorded

InitMain ==
  /\ InitApp
  /\ panelT = [p \in PanelSet |-> NoSnapshot]
  /\ trails = SolarAfter(0).trails
  /\ scene = SolarAfter(0).scene
  /\ calc = NoCalc
  /\ lastOp = "init"
  /\ events = 0

Init == InitMain /\ NoHistory

\* --------------------------------------------------------- environment
\* real time passes
ClockAdvance ==
  /\ \E p \in PerfTimes : p > perfNow /\ perfNow' = p
  /\ lastOp' = "clock"
  /\ UNCHANGED <<clockVars, appVars, weatherVars, solarVars, viewVars, resetHold, pausedTick, skews, events>>

\* a performance.now() that is not monotonic: a later read gives less
ClockStepsBack ==
  /\ skews < MaxSkews
  /\ \E p \in PerfTimes : p < perfNow /\ perfNow' = p
  /\ skews' = skews + 1
  /\ lastOp' = "clock"
  /\ UNCHANGED <<clockVars, appVars, weatherVars, solarVars, viewVars, resetHold, pausedTick, events>>

\* --------------------------------------- TimeController used on its own
Tick ==
  /\ LET tk == TickOutcome(perfNow)
         gc == Collected(tk.simTime, tk.ret.sim, tk.heap)
     IN /\ lastRealMs' = tk.lastRealMs
        /\ simTime' = gc.simTime
        /\ heap' = gc.heap
        /\ t' = [tk.ret EXCEPT !.sim = gc.tsim]
  /\ pausedTick' = LoggedTick(pausedTick, paused)
  /\ lastOp' = "tick"
  /\ UNCHANGED <<perfNow, paused, speed, appVars, weatherVars, solarVars, viewVars, resetHold, skews, events>>

ResetCore ==
  /\ LET gc == Collected(ResetOutcome.simTime, t.sim, ResetOutcome.heap)
     IN /\ simTime' = gc.simTime
        /\ heap' = gc.heap
        /\ t' = [t EXCEPT !.sim = gc.tsim]
  /\ resetHold' = IF paused THEN heap'[simTime'] ELSE NoHold
  /\ pausedTick' = pausedTick
  /\ lastOp' = "resetNow"
  /\ UNCHANGED <<perfNow, lastRealMs, paused, speed, appVars, weatherVars, solarVars, viewVars, skews>>

\* time.resetNow()
ResetNow == ResetCore /\ UNCHANGED events

\* time.paused = b
AssignPaused(b) ==
  /\ paused' = b
  /\ resetHold' = IF b THEN resetHold ELSE NoHold
  /\ pausedTick' = pausedTick
  /\ lastOp' = "paused"
  /\ UNCHANGED <<perfNow, heap, lastRealMs, speed, simTime, t, appVars,
                 weatherVars, solarVars, viewVars, skews, events>>

\* time.speed = v
AssignSpeed(v) ==
  /\ speed' = v
  /\ lastOp' = "speed"
  /\ UNCHANGED <<perfNow, heap, lastRealMs, paused, simTime, t, appVars,
                 weatherVars, solarVars, viewVars, resetHold, pausedTick, skews, events>>

NextController ==
  \/ ClockAdvance
  \/ Tick
  \/ ResetNow
  \/ \E b \in BOOLEAN : AssignPaused(b)
  \/ \E v \in ClientSpeeds : AssignSpeed(v)

SpecController == Init /\ [][NextController]_vars

\* ... with the history of paused ticks kept
InitPause ==
  /\ InitMain
  /\ weatherLog = WeatherLogOff
  /\ pausedTick = Never

SpecPause == InitPause /\ [][NextController]_vars

NextSkew ==
  \/ ClockAdvance
  \/ ClockStepsBack
  \/ Tick
  \/ \E b \in BOOLEAN : AssignPaused(b)
  \/ \E v \in ClientSpeeds : AssignSpeed(v)

SpecSkew == Init /\ [][NextSkew]_vars

\* ------------------------------------------------------------- main()
\* gui.add(params, 'paused').onChange(v => time.paused = v)
GuiPaused(v) ==
  /\ events < MaxEvents
  /\ events' = events + 1
  /\ v # params.paused
  /\ params' = [params EXCEPT !.paused = v]
  /\ paused' = v
  /\ resetHold' = IF v THEN resetHold ELSE NoHold
  /\ pausedTick' = pausedTick
  /\ lastOp' = "paused"
  /\ UNCHANGED <<perfNow, heap, lastRealMs, speed, simTime, t, booted, rafPending, panelT,
                 weatherVars, solarVars, viewVars, skews>>

GuiSpeed_AlsoResets(v) ==
  /\ events < MaxEvents
  /\ events' = events + 1
  /\ v # params.speed
  /\ params' = [params EXCEPT !.speed = v]
  /\ speed' = v
  /\ heap' = [heap EXCEPT ![simTime] = WallNow(perfNow)]
  /\ lastOp' = "speed"
  /\ UNCHANGED <<perfNow, lastRealMs, paused, simTime, t, booted, rafPending, panelT,
                 weatherVars, solarVars, viewVars, resetHold, pausedTick, skews>>

\* gui.add(params, 'speed', {...}).onChange(v => time.speed = v)
GuiSpeed(v) ==
  /\ events < MaxEvents
  /\ events' = events + 1
  /\ v # params.speed
  /\ params' = [params EXCEPT !.speed = v]
  /\ speed' = v
  /\ lastOp' = "speed"
  /\ UNCHANGED <<perfNow, heap, lastRealMs, paused, simTime, t, booted, rafPending, panelT,
                 weatherVars, solarVars, viewVars, resetHold, pausedTick, skews>>

\* gui.add(params, 'resetNow'): params.resetNow = () => time.resetNow()
GuiResetNow ==
  /\ events < MaxEvents
  /\ events' = events + 1
  /\ ResetCore

\* the weather state and fetches after maybeFetchWeather(weather, lat, lon, force)
\* called with the WeatherState w
CallMaybeFetch(w, lat, lon, force) ==
  LET r == MaybeFetchWeather(w, fetches, lat, lon, force)
  IN /\ weather' = r.weather
     /\ fetches' = r.fetches
     /\ weatherLog' = LoggedCall(weatherLog, w, r.fetches, lat, lon)

\* locFolder.add(params, 'lat', ...).onChange(() => maybeFetchWeather(..., true))
GuiLat(v) ==
  /\ events < MaxEvents
  /\ events' = events + 1
  /\ v # params.lat
  /\ params' = [params EXCEPT !.lat = v]
  /\ CallMaybeFetch(weather, v, params.lon, TRUE)
  /\ lastOp' = "lat"
  /\ UNCHANGED <<perfNow, clockVars, booted, rafPending, panelT, solarVars, viewVars, resetHold, pausedTick, skews>>

GuiLon(v) ==
  /\ events < MaxEvents
  /\ events' = events + 1
  /\ v # params.lon
  /\ params' = [params EXCEPT !.lon = v]
  /\ CallMaybeFetch(weather, params.lat, v, TRUE)
  /\ lastOp' = "lon"
  /\ UNCHANGED <<perfNow, clockVars, booted, rafPending, panelT, solarVars, viewVars, resetHold, pausedTick, skews>>

\* weatherFolder.add(params, 'weather').onChange(v => {...})
GuiWeatherEnable(v) ==
  /\ events < MaxEvents
  /\ events' = events + 1
  /\ v # params.weather
  /\ params' = [params EXCEPT !.weather = v]
  /\ IF v
       THEN CallMaybeFetch([weather EXCEPT !.enabled = v], params.lat, params.lon, TRUE)
       ELSE weather' = [weather EXCEPT !.enabled = v] /\ UNCHANGED <<fetches, weatherLog>>
  /\ lastOp' = "enable"
  /\ UNCHANGED <<perfNow, clockVars, booted, rafPending, panelT, solarVars, viewVars, resetHold, pausedTick, skews>>

\* params.refreshWeather
GuiRefreshWeather ==
  /\ events < MaxEvents
  /\ events' = events + 1
  /\ CallMaybeFetch([weather EXCEPT !.lastFetchMs = 0], params.lat, params.lon, TRUE)
  /\ lastOp' = "refresh"
  /\ UNCHANGED <<perfNow, clockVars, appVars, solarVars, viewVars, resetHold, pausedTick, skews>>

\* maybeFetchWeather after its awaits, the request answered with json.current = r
WeatherSucceed(i, r) ==
  /\ i \in 1 .. Len(fetches)
  /\ weather' = [weather EXCEPT
                   !.tempC = r.temperature_2m,
                   !.windKph = r.wind_speed_10m,
                   !.code = r.weather_code,
                   !.isDay = IF r.is_day = 1 THEN "true" ELSE "false",
                   !.updatedAt = WallNow(perfNow),
                   !.lastFetchMs = fetches[i].t,
                   !.inflight = FALSE]
  /\ fetches' = RemoveAt(fetches, i)
  /\ weatherLog' = LoggedResult(weatherLog, fetches[i].lat, fetches[i].lon)
  /\ lastOp' = "fetchOk"
  /\ UNCHANGED <<perfNow, clockVars, appVars, solarVars, viewVars, resetHold, pausedTick, skews, events>>

\* maybeFetchWeather after its awaits, one of them having thrown e
WeatherFail(i, e) ==
  /\ i \in 1 .. Len(fetches)
  /\ weather' = [weather EXCEPT !.error = e, !.inflight = FALSE]
  /\ fetches' = RemoveAt(fetches, i)
  /\ weatherLog' = weatherLog
  /\ lastOp' = "fetchFail"
  /\ UNCHANGED <<perfNow, clockVars, appVars, solarVars, viewVars, resetHold, pausedTick, skews, events>>

\* main() after buildEarthPanel resolved: the first weather fetch and the
\* first requestAnimationFrame(frame)
Boot ==
  /\ ~booted
  /\ booted' = TRUE
  /\ rafPending' = TRUE
  /\ CallMaybeFetch([weather EXCEPT !.enabled = params.weather], params.lat, params.lon, TRUE)
  /\ lastOp' = "boot"
  /\ UNCHANGED <<perfNow, clockVars, params, panelT, solarVars, viewVars, resetHold, pausedTick, skews, events>>

\* frame(): one tick, the weather poll, every panel's onFrame
Frame ==
  /\ rafPending
  /\ events < MaxEvents
  /\ LET tk == TickOutcome(perfNow)
         st == RunPanels(1, tk.ret, tk.heap,
                         [panelT |-> panelT, trails |-> trails, scene |-> scene,
                          earth |-> earth, universe |-> universe,
                          weather |-> MaybeFetchWeather(weather, fetches, params.lat,
                                                        params.lon, FALSE).weather,
                          thrower |-> NoPanel])
         gc == Collected(tk.simTime, tk.ret.sim, tk.heap)
     IN /\ lastRealMs' = tk.lastRealMs
        /\ simTime' = gc.simTime
        /\ heap' = gc.heap
        /\ t' = [tk.ret EXCEPT !.sim = gc.tsim]
        /\ panelT' = st.panelT
        /\ trails' = st.trails
        /\ scene' = st.scene
        /\ earth' = st.earth
        /\ universe' = st.universe
  /\ CallMaybeFetch(weather, params.lat, params.lon, FALSE)
  /\ events' = events + 1
  /\ pausedTick' = LoggedTick(pausedTick, paused)
  /\ lastOp' = "frame"
  /\ UNCHANGED <<perfNow, paused, speed, params, booted, rafPending, calc, resetHold, skews>>

\* frame() with the onFrame of panel k throwing: the tick and the weather
\* poll have run, the panels before k are updated, the exception leaves
\* frame() before `requestAnimationFrame(frame)`
FrameThrows(k) ==
  /\ rafPending
  /\ events < MaxEvents
  /\ LET tk == TickOutcome(perfNow)
         st == RunPanels(1, tk.ret, tk.heap,
                         [panelT |-> panelT, trails |-> trails, scene |-> scene,
                          earth |-> earth, universe |-> universe,
                          weather |-> MaybeFetchWeather(weather, fetches, params.lat,
                                                        params.lon, FALSE).weather,
                          thrower |-> k])
         gc == Collected(tk.simTime, tk.ret.sim, tk.heap)
     IN /\ lastRealMs' = tk.lastRealMs
        /\ simTime' = gc.simTime
        /\ heap' = gc.heap
        /\ t' = [tk.ret EXCEPT !.sim = gc.tsim]
        /\ panelT' = st.panelT
        /\ trails' = st.trails
        /\ scene' = st.scene
        /\ earth' = st.earth
        /\ universe' = st.universe
  /\ CallMaybeFetch(weather, params.lat, params.lon, FALSE)
  /\ events' = events + 1
  /\ rafPending' = FALSE
  /\ pausedTick' = LoggedTick(pausedTick, paused)
  /\ lastOp' = "frameThrew"
  /\ UNCHANGED <<perfNow, paused, speed, params, booted, calc, resetHold, skews>>

Next ==
  \/ ClockAdvance
  \/ Boot
  \/ Frame
  \/ \E v \in BOOLEAN : GuiPaused(v)
  \/ \E v \in GuiSpeeds : GuiSpeed(v)
  \/ GuiResetNow
  \/ \E v \in LatValues : GuiLat(v)
  \/ \E v \in LonValues : GuiLon(v)
  \/ \E v \in BOOLEAN : GuiWeatherEnable(v)
  \/ GuiRefreshWeather
  \/ \E i \in 1 .. Len(fetches), r \in Responses : WeatherSucceed(i, r)
  \/ \E i \in 1 .. Len(fetches), e \in Failures : WeatherFail(i, e)

Spec == Init /\ [][Next]_vars

\* main() with the history of the weather requests kept; of the handlers
\* of the GUI, those that reach maybeFetchWeather
InitWeather ==
  /\ InitMain
  /\ weatherLog = NoWeatherLog
  /\ pausedTick = Unrecorded

NextWeather ==
  \/ ClockAdvance
  \/ Boot
  \/ Frame
  \/ \E v \in LatValues : GuiLat(v)
  \/ \E v \in LonValues : GuiLon(v)
  \/ \E v \in BOOLEAN : GuiWeatherEnable(v)
  \/ GuiRefreshWeather
  \/ \E i \in 1 .. Len(fetches), r \in Responses : WeatherSucceed(i, r)
  \/ \E i \in 1 .. Len(fetches), e \in Failures : WeatherFail(i, e)

SpecWeather == InitWeather /\ [][NextWeather]_vars

\* main() with an ephemeris that may reject the time it is asked for
NextFaulty ==
  \/ Next
  \/ \E k \in EphemerisPanels : FrameThrows(k)

SpecFaulty == Init /\ [][NextFaulty]_vars

\* ------------------------------------------- the solar panel on its own
\* buildSolarPanel's onFrame called frame after frame, one simulated
\* second apart, picked up after n frames have run
InitSolar ==
  /\ InitApp
  /\ NoHistory
  /\ \E n \in SolarStarts :
       /\ trails = SolarAfter(n).trails
       /\ scene = SolarAfter(n).scene
       /\ panelT = [p \in PanelSet |-> IF p = "solar" /\ n > 0 THEN SolarSnapshot(n - 1)
                                                            ELSE NoSnapshot]
       /\ lastOp = IF n > 0 THEN "solarFrame" ELSE "init"
       /\ events = n
  /\ calc = NoCalc

SolarFrame ==
  /\ \E n \in SolarStarts : events \in n .. n + MaxPushes - 1
  /\ LET sol == SolarOnFrame(trails, SolarSnapshot(events).sim)
     IN /\ trails' = sol.trails
        /\ scene' = sol.scene
        /\ panelT' = [panelT EXCEPT !["solar"] = SolarSnapshot(events)]
  /\ events' = events + 1
  /\ lastOp' = "solarFrame"
  /\ UNCHANGED <<perfNow, clockVars, params, booted, rafPending, weatherVars, viewVars, resetHold, pausedTick, skews>>

NextSolar == SolarFrame

SpecSolar == InitSolar /\ [][NextSolar]_vars

\* ------------------------------------------- the Earth panel on its own
\* buildEarthPanel's onFrame called with simulated times hours apart, and
\* with neighbouring milliseconds; the GUI moves the texture offset and the
\* observer in between
EarthStepMs == 9000000
EarthTimes == {WallOrigin + k * EarthStepMs + j : k \in 0 .. MaxEarthSteps, j \in 0 .. 2}

\* earthFolder.add(params, 'earthTextureOffsetDeg', -180, 180, 0.1)
GuiTextureOffset(v) ==
  /\ events < MaxEvents
  /\ events' = events + 1
  /\ v # params.earthTextureOffsetDeg
  /\ params' = [params EXCEPT !.earthTextureOffsetDeg = v]
  /\ lastOp' = "textureOffset"
  /\ UNCHANGED <<perfNow, clockVars, booted, rafPending, panelT, weatherVars, solarVars, viewVars,
                 resetHold, pausedTick, skews>>

EarthFrame(ms) ==
  /\ events < MaxEvents
  /\ events' = events + 1
  /\ earth' = EarthOnFrame(ms, params.earthTextureOffsetDeg, params.lat, params.lon,
                            GetWeatherLines(params, weather))
  /\ panelT' = [panelT EXCEPT !["earth"] = [now |-> WallNow(perfNow), sim |-> ms, dtReal |-> 0]]
  /\ lastOp' = "earthFrame"
  /\ UNCHANGED <<perfNow, clockVars, params, booted, rafPending, weatherVars, solarVars, universe, calc,
                 resetHold, pausedTick, skews>>

NextEarth ==
  \/ \E ms \in EarthTimes : EarthFrame(ms)
  \/ \E v \in TextureOffsets : GuiTextureOffset(v)
  \/ \E v \in LatValues : GuiLat(v)
  \/ \E v \in LonValues : GuiLon(v)

SpecEarth == Init /\ [][NextEarth]_vars

\* ---------------------------------------- the universe panel on its own
\* slider positions: the ends, the default, each band edge and its neighbours
CosmicAges ==
  {MinCosmicAge, 4, 5, 6, 14, 15, 16, 49, 50, 51, 99, 100, 101, DefaultCosmicAge,
   199, 200, 201, 300, MaxCosmicAge}

\* universeFolder.add(params, 'cosmicAgeGyr', 0.1, 40, 0.1)
GuiCosmicAge(v) ==
  /\ events < MaxEvents
  /\ events' = events + 1
  /\ v # params.cosmicAgeGyr
  /\ params' = [params EXCEPT !.cosmicAgeGyr = v]
  /\ lastOp' = "cosmicAge"
  /\ UNCHANGED <<perfNow, clockVars, booted, rafPending, panelT, weatherVars, solarVars, viewVars,
                 resetHold, pausedTick, skews>>

UniverseFrame ==
  /\ events < MaxEvents
  /\ events' = events + 1
  /\ universe' = UniverseOnFrame(params.cosmicAgeGyr, perfNow)
  /\ lastOp' = "universeFrame"
  /\ UNCHANGED <<perfNow, clockVars, appVars, weatherVars, solarVars, earth, calc,
                 resetHold, pausedTick, skews>>

NextUniverse ==
  \/ ClockAdvance
  \/ UniverseFrame
  \/ \E v \in CosmicAges : GuiCosmicAge(v)

SpecUniverse == Init /\ [][NextUniverse]_vars

\* ------------------------------------- functions applied to chosen inputs
Coords == (0 - MaxCoord) .. MaxCoord
Vectors == {<<x, y, z>> : x \in Coords, y \in Coords, z \in Coords}
Scales == {-2, -1, 0, 1, 3}
GstHours == {0, 27, 600, 1199, 1200, 1201, 2399}
RaHours == {0, 1, 600, 1200, 1800, 2399}

InitCalc ==
  /\ InitApp
  /\ NoHistory
  /\ panelT = [p \in PanelSet |-> NoSnapshot]
  /\ trails = SolarAfter(0).trails
  /\ scene = SolarAfter(0).scene
  /\ lastOp = "init"
  /\ events = 0
  /\ \/ \E u \in Vectors, v \in Vectors, sc \in Scales :
          calc = [op |-> "vectors", u |-> u, v |-> v, scale |-> sc]
     \/ \E g \in GstHours, r \in RaHours, o \in TextureOffsets :
          calc = [op |-> "hours", gst |-> g, ra |-> r, texOff |-> o]

\* astroToThreeVec(u, scale), astroToThreeVec(v, scale)
ApplyMapper ==
  /\ calc.op = "vectors"
  /\ calc' = [op |-> "astroToThreeVec", u |-> calc.u, v |-> calc.v, scale |-> calc.scale,
              mu |-> astroToThreeVec(calc.u, calc.scale),
              mv |-> astroToThreeVec(calc.v, calc.scale)]
  /\ lastOp' = "astroToThreeVec"
  /\ UNCHANGED <<perfNow, clockVars, appVars, weatherVars, solarVars, earth, universe,
                 resetHold, pausedTick, skews, events>>

\* the spin of the Earth as each revision of the Earth panel derives it
ApplySpin ==
  /\ calc.op = "hours"
  /\ calc' = [op |-> "spin", gst |-> calc.gst, ra |-> calc.ra, texOff |-> calc.texOff,
              ha |-> HourAngleDeg(calc.gst, calc.ra),
              hourAngle |-> HourAngleSpin(calc.gst, calc.ra, calc.texOff),
              sidereal |-> EarthSpin(HoursToAngle(calc.gst), DegToAngle(calc.texOff))]
  /\ lastOp' = "spin"
  /\ UNCHANGED <<perfNow, clockVars, appVars, weatherVars, solarVars, earth, universe,
                 resetHold, pausedTick, skews, events>>

NextCalc == ApplyMapper \/ ApplySpin

SpecCalc == InitCalc /\ [][NextCalc]_vars

\* ================================================================ claims
TickOps == {"tick", "frame"}

\* C1: an unpaused tick() advances simulatedTime by exactly
\* dtReal * 1000 * speed milliseconds, whole number of milliseconds or not.
C1_TickAdvancesExactly ==
  [][(lastOp' \in TickOps /\ ~paused)
       => heap'[simTime'] * Res = heap[simTime] * Res + (perfNow - lastRealMs) * speed]_vars

\* C2: while paused, ticks (with any elapsed real time and any speed),
\* speed changes and the passing of real time leave simulatedTime unchanged.
C2_PausedKeepsSimTime ==
  [][(paused /\ lastOp' \in TickOps \cup {"speed", "clock"})
       => heap'[simTime'] = heap[simTime]]_vars

C2_Witness ==
  /\ lastOp = "tick" /\ paused /\ speed = 3600
  /\ t.dtReal > 0 /\ lastRealMs = perfNow

\* C3: with speed >= 0 and no resetNow, simulatedTime never decreases from
\* one step to the next, so each tick observes at least what the last did.
C3_SimTimeMonotonic ==
  [][lastOp' # "resetNow" => heap'[simTime'] >= heap[simTime]]_vars

C3_Witness ==
  /\ lastOp = "tick" /\ ~paused /\ speed > 0
  /\ t.dtReal > 0 /\ SimMs > WallNow(perfNow)

\* C4: a tick() that reads a clock value earlier than the one the previous
\* tick recorded returns dtReal = 0 and does not move simulatedTime back.
C4_BackwardClockClamped ==
  [][lastOp' \in TickOps
       => (t'.dtReal >= 0 /\ heap'[simTime'] >= heap[simTime])]_vars

\* C5: resetNow() sets simulatedTime to the wall clock whatever paused and
\* speed are and changes neither; after a resetNow() made while paused,
\* simulatedTime stays at the reset value for as long as the clock stays paused.
C5_ResetNowSetsWallClock ==
  [][/\ lastOp' = "resetNow"
          => /\ heap'[simTime'] = WallNow(perfNow)
             /\ paused' = paused
             /\ speed' = speed
     /\ resetHold' # NoHold => (paused' /\ heap'[simTime'] = resetHold')]_vars

C5_Witness ==
  /\ lastOp = "frame" /\ paused /\ resetHold # NoHold
  /\ t.dtReal > 0 /\ SimMs = resetHold /\ WallNow(perfNow) > WallNow(0)

\* C6: only tick() and resetNow() change simulatedTime and only tick() moves
\* the last-real-time anchor: speed and pause changes, the panels' updates
\* and the start or completion of a weather request leave both alone.
C6_OnlyTickAndResetMoveTime ==
  [][/\ heap'[simTime'] # heap[simTime] => lastOp' \in {"frame", "resetNow"}
     /\ lastRealMs' # lastRealMs => lastOp' = "frame"
     /\ lastOp' = "frame"
          => LET tk == TickOutcome(perfNow)
             IN heap'[simTime'] = tk.heap[tk.simTime]]_vars

C6_Witness ==
  /\ lastOp = "fetchOk" /\ speed # 1
  /\ t.sim # NullRef /\ SimMs > WallNow(perfNow)

\* the simulatedTime and the return value tick() gives from this state, read
\* at performance.now() = p
TickView(p, isPaused, spd) ==
  LET tk == TickWith(p, isPaused, spd)
  IN <<tk.heap[tk.simTime], tk.lastRealMs, tk.ret.now, tk.heap[tk.ret.sim], tk.ret.dtReal>>

ZeroSpeedAsPaused ==
  \A p \in PerfTimes : \A spd \in ClientSpeeds :
    p >= perfNow => TickView(p, FALSE, 0) = TickView(p, TRUE, spd)

\* C7: from any state, a tick with speed = 0 and paused = false leaves the
\* same simulatedTime (and returns the same) as a tick with paused = true, so
\* the two runs agree tick after tick; a speed change never alters paused.
C7_ZeroSpeedEquivalentToPaused ==
  [][/\ ZeroSpeedAsPaused /\ ZeroSpeedAsPaused'
     /\ (lastOp' \in TickOps /\ speed = 0) => heap'[simTime'] = heap[simTime]
     /\ speed' # speed => paused' = paused]_vars

C7_Witness ==
  /\ lastOp = "tick" /\ speed = 0 /\ ~paused
  /\ t.dtReal > 0 /\ SimMs > WallNow(perfNow)

\* C8: the sim that tick() returns is a Date of its own holding the
\* simulatedTime after that tick's update, and no later tick(), resetNow() or
\* setter changes the value of a Date returned earlier.
C8_ReturnedSimIsSnapshotAfterUpdate ==
  [][/\ lastOp' \in TickOps
          => (t'.sim # simTime' /\ heap'[t'.sim] = heap'[simTime'])
     /\ (t.sim # NullRef /\ lastOp' \notin TickOps) => heap'[t'.sim] = heap[t.sim]
     /\ t.sim # NullRef
          => /\ ResetOutcome.heap[t.sim] = heap[t.sim]
             /\ \A p \in PerfTimes : TickOutcome(p).heap[t.sim] = heap[t.sim]]_vars

C8_Witness ==
  /\ lastOp = "resetNow" /\ t.sim # NullRef
  /\ heap[t.sim] > SimMs /\ t.dtReal > 0

PanelsAgree ==
  t.sim # NullRef
    => \A p \in PanelSet :
         panelT[p] = [now |-> t.now, sim |-> heap[t.sim], dtReal |-> t.dtReal]

\* C9: a frame performs one tick() and every panel's update of that frame
\* gets that tick's {now, sim, dtReal}; nothing runs between two panel
\* updates, so the panels never hold different simulated times.
C9_OneTickPerFrameSharedSnapshot ==
  [][/\ PanelsAgree'
     /\ lastOp' = "frame"
          => /\ lastRealMs' = perfNow
             /\ t'.dtReal = perfNow - lastRealMs
             /\ t'.now = WallNow(perfNow)
             /\ heap'[t'.sim] = heap'[simTime']]_vars

C9_Witness ==
  /\ lastOp = "frame" /\ t.dtReal > 0 /\ SimMs > WallNow(perfNow)
  /\ \A p \in PanelSet : panelT[p].sim = SimMs /\ panelT[p].dtReal = t.dtReal

\* C10: every trail keeps 0 <= count <= TRAIL_POINTS and
\* 0 <= index < TRAIL_POINTS, its buffer keeps its TRAIL_POINTS positions,
\* and index = count until the trail is full.
C10_TrailBookkeeping ==
  \A b \in BodySet :
    LET tr == trails[b]
    IN /\ tr.count \in 0 .. TRAIL_POINTS
       /\ tr.index \in 0 .. TRAIL_POINTS - 1
       /\ tr.positions.length = 3 * TRAIL_POINTS
       /\ DOMAIN tr.positions.data \subseteq 0 .. 3 * TRAIL_POINTS - 1
       /\ tr.count < TRAIL_POINTS => tr.index = tr.count

C10_Witness ==
  /\ events > 2 * TRAIL_POINTS
  /\ \A b \in BodySet : trails[b].count = TRAIL_POINTS /\ trails[b].index = events % TRAIL_POINTS

\* ---- the trail of a body against what was pushed into it (SpecSolar)
\* the position the k-th frame (counting from 0) pushes into the trail of b
Inserted(b, k) == MeshPosition(b, SolarSnapshot(k).sim)

\* the position held by slot s of a trail: positions[3s], [3s+1], [3s+2]
Slot(tr, s) ==
  << Load(tr.positions, 3 * s), Load(tr.positions, 3 * s + 1), Load(tr.positions, 3 * s + 2) >>

\* what a Float32Array keeps of a position
Fround3(p) == << Fround(p[1]), Fround(p[2]), Fround(p[3]) >>

\* the frames whose positions a trail should still hold after n pushes
LastPushes(n) == (IF n > TRAIL_POINTS THEN n - TRAIL_POINTS ELSE 0) .. n - 1

\* the vertices the line draws, setDrawRange(0, count): slots 0 .. count-1
Drawn(tr) == [i \in 1 .. tr.count |-> Slot(tr, i - 1)]

\* C11 as stated: once more than TRAIL_POINTS positions were pushed, the
\* trail reports TRAIL_POINTS filled slots and holds exactly the last
\* TRAIL_POINTS pushed positions, each push having overwritten the oldest.
C11_HoldsLastInsertedExactly ==
  events > TRAIL_POINTS =>
    \A b \in BodySet :
      /\ trails[b].count = TRAIL_POINTS
      /\ \A k \in LastPushes(events) : Slot(trails[b], k % TRAIL_POINTS) = Inserted(b, k)

\* the slots of every trail hold the single-precision values of exactly the
\* last pushed positions, push k in slot k mod TRAIL_POINTS
HoldsLastInsertedRounded ==
  \A b \in BodySet :
    /\ events > TRAIL_POINTS => trails[b].count = TRAIL_POINTS
    /\ \A k \in LastPushes(events) :
         Slot(trails[b], k % TRAIL_POINTS) = Fround3(Inserted(b, k))

\* a push into a full trail writes the slot that held the oldest position,
\* the one pushed TRAIL_POINTS frames earlier, and leaves every other slot
\* as it was
PushOverwritesOldestOnly ==
  [][\A b \in BodySet :
       trails[b].count = TRAIL_POINTS /\ trails'[b] # trails[b] =>
         /\ Slot(trails[b], trails[b].index) = Fround3(Inserted(b, events - TRAIL_POINTS))
         /\ Slot(trails'[b], trails[b].index) = Fround3(Inserted(b, events))
         /\ \A s \in 0 .. TRAIL_POINTS - 1 :
              s # trails[b].index => Slot(trails'[b], s) = Slot(trails[b], s)]_vars

\* C11 (amended): after more than TRAIL_POINTS pushes the trail reports
\* TRAIL_POINTS filled slots and holds the single-precision values of
\* exactly the last TRAIL_POINTS pushed positions; every push into a full
\* trail overwrites the oldest stored position and no other slot.
C11_HoldsLastInsertedRounded == []HoldsLastInsertedRounded /\ PushOverwritesOldestOnly

C11_Witness ==
  /\ events = 2 * TRAIL_POINTS + 3
  /\ lastOp = "solarFrame"
  /\ \A b \in BodySet : trails[b].count = TRAIL_POINTS
  /\ Slot(trails["Neptune"], 2) # Inserted("Neptune", events - 1)
  /\ Slot(trails["Neptune"], 2) = Fround3(Inserted("Neptune", events - 1))

\* C12: the vertices the trail exposes for drawing, slots 0 .. count-1, are
\* the pushed positions in the order they were pushed, oldest first and
\* newest last, also after the buffer has wrapped.
C12_DrawnInInsertionOrder ==
  \A b \in BodySet :
    LET n == trails[b].count
    IN Drawn(trails[b]) = [i \in 1 .. n |-> Fround3(Inserted(b, events - n + i - 1))]

\* ---- astroToThreeVec on its own (SpecCalc)
Dot(a, b) == a[1] * b[1] + a[2] * b[2] + a[3] * b[3]

\* C13: for every scale s and all vectors u, v the mapped vectors have dot
\* product s^2 (u . v), so orthogonal vectors stay orthogonal and squared
\* lengths are scaled by s^2; the map is one-to-one for s # 0, and mapping
\* twice gives s^2 times the vector it started from, so it can be undone.
C13_MapperPreservesAngles ==
  calc.op = "astroToThreeVec" =>
    LET s2 == calc.scale * calc.scale
    IN /\ Dot(calc.mu, calc.mv) = s2 * Dot(calc.u, calc.v)
       /\ Dot(calc.mu, calc.mu) = s2 * Dot(calc.u, calc.u)
       /\ Dot(calc.u, calc.v) = 0 => Dot(calc.mu, calc.mv) = 0
       /\ calc.scale # 0 /\ calc.u # calc.v => calc.mu # calc.mv
       /\ astroToThreeVec(calc.mu, calc.scale)
            = << s2 * calc.u[1], s2 * calc.u[2], s2 * calc.u[3] >>

C13_Witness ==
  /\ calc.op = "astroToThreeVec"
  /\ calc.scale = 3
  /\ calc.u = <<1, 1, 0>>
  /\ calc.v = <<1, 0, -1>>
  /\ calc.mu = <<3, 0, 3>>
  /\ Dot(calc.mu, calc.mv) = 9

\* ---- the solar panel inside frame() (Spec)
\* C14: after every frame each body's mesh is at astroToThreeVec of the
\* provider's heliocentric vector at 1 unit = 1 AU, so its distance from the
\* Sun at the origin is the length of that vector.
C14_MeshIsMappedHelioVector ==
  lastOp = "frame" =>
    \A b \in BodySet :
      LET hv == HelioVector(b, panelT["solar"].sim)
      IN /\ scene.mesh[b] = astroToThreeVec(hv, 1)
         /\ Dot(scene.mesh[b], scene.mesh[b]) = Dot(hv, hv)

\* C15: after every frame the Moon is at the Earth mesh's position plus
\* MoonExaggeration times astroToThreeVec of the provider's geocentric Moon
\* vector, in all three components, and the Earth mesh is where the frame
\* put it.
C15_MoonIsEarthPlusMappedOffset ==
  lastOp = "frame" =>
    LET ms == panelT["solar"].sim
        off == astroToThreeVec(GeoMoonVector(ms), 1)
        e == scene.mesh["Earth"]
    IN /\ scene.moon = << e[1] + MoonExaggeration * off[1],
                          e[2] + MoonExaggeration * off[2],
                          e[3] + MoonExaggeration * off[3] >>
       /\ e = MeshPosition("Earth", ms)

\* ---- the Earth panel on its own (SpecEarth)
\* C16: after every frame of the Earth panel the Earth and the atmosphere
\* are rotated about the polar axis alone, both by -(GST hours x 15) +
\* texture offset, whatever the rotation was before; for a fixed offset a
\* larger sidereal time gives a smaller angle.
C16_SpinIsMinusSiderealPlusOffset ==
  /\ lastOp = "earthFrame" =>
       LET spin == DegToAngle(params.earthTextureOffsetDeg)
                     - SiderealTime(panelT["earth"].sim) * 3
       IN /\ earth.rotation = << 0, spin, 0 >>
          /\ earth.atmoRotation = << 0, spin, 0 >>
  /\ \A m1 \in EarthTimes, m2 \in EarthTimes :
       SiderealTime(m1) < SiderealTime(m2) =>
         EarthOnFrame(m2, params.earthTextureOffsetDeg, params.lat, params.lon, << >>).rotation[2]
           < EarthOnFrame(m1, params.earthTextureOffsetDeg, params.lat, params.lon, << >>).rotation[2]

C16_Witness ==
  /\ lastOp = "earthFrame"
  /\ events = 3
  /\ params.earthTextureOffsetDeg = -1
  /\ panelT["earth"].sim = WallOrigin + 2 * EarthStepMs
  /\ earth.rotation[2] = -2 - 3 * SiderealTime(WallOrigin + 2 * EarthStepMs)
  /\ earth.rotation[2] < -1500

\* ---- the two derivations of the spin (SpecCalc)
NormAngle(x) == ((x % Turn) + Turn) % Turn

\* C17: for the same sidereal time, right ascension and texture offset the
\* hour-angle spin exceeds the sidereal spin by RA x 15 degrees modulo 360,
\* so the two differ modulo 360 for every right ascension other than 0 h.
C17_SpinDerivationsDifferByRA ==
  calc.op = "spin" =>
    /\ NormAngle(calc.hourAngle - calc.sidereal) = NormAngle(calc.ra * 3)
    /\ calc.ra # 0 => NormAngle(calc.hourAngle) # NormAngle(calc.sidereal)

C17_Witness ==
  /\ calc.op = "spin"
  /\ calc.gst = 600
  /\ calc.ra = 1800
  /\ calc.texOff = 0
  /\ NormAngle(calc.sidereal) = 5400
  /\ NormAngle(calc.hourAngle) = 3600

\* ---- the Earth panel inside frame() (Spec)
\* C18: after every frame the overlay says daylight exactly when the Sun's
\* altitude for the observer is above 0, and night when it is 0 or below,
\* whatever the weather's is_day, the pause state and the speed are.
C18_DaylightIffAltitudePositive ==
  lastOp = "frame" =>
    LET alt == SunAltitude(panelT["earth"].sim, params.lat, params.lon)
    IN /\ earth.altitude = alt
       /\ alt > 0 => earth.overlay = "daylight"
       /\ alt = 0 => earth.overlay = "night"
       /\ alt < 0 => earth.overlay = "night"

C18_Witness ==
  /\ lastOp = "frame"
  /\ earth.altitude = 0
  /\ earth.overlay = "night"
  /\ weather.isDay = "true"

\* ---- the universe panel on its own (SpecUniverse)
\* C19 as stated: at 13.8 Gyr the scale factor is between 0.93 and 1.0.
C19_ScaleFactorNearOne ==
  lastOp = "universeFrame" /\ universe.age = DefaultCosmicAge =>
    universe.a >= 930 /\ universe.a <= Milli

\* C19 (amended): at 13.8 Gyr the scale factor is about 0.63, between 0.62
\* and 0.64.
C19_ScaleFactorAtPresentAge ==
  lastOp = "universeFrame" /\ universe.age = DefaultCosmicAge =>
    universe.a >= 620 /\ universe.a <= 640

C19_Witness ==
  /\ lastOp = "universeFrame"
  /\ universe.age = DefaultCosmicAge
  /\ universe.a = 631
  /\ universe.epoch = "dark energy era"

\* C20: after every frame the epoch label is the one of the age's band,
\* each band holding its lower edge and not its upper one; 13.8 Gyr is in the
\* dark energy era, and the placeholder 'late universe' is never the label.
C20_EpochLabelBands ==
  lastOp = "universeFrame" =>
    LET age == params.cosmicAgeGyr
        label == universe.epoch
    IN /\ age < 5 <=> label = "recombination / dark ages"
       /\ age >= 5 /\ age < 15 <=> label = "first galaxies"
       /\ age >= 15 /\ age < 50 <=> label = "peak star formation"
       /\ age >= 50 /\ age < 100 <=> label = "maturing cosmic web"
       /\ age >= 100 /\ age < 200 <=> label = "dark energy era"
       /\ age >= 200 <=> label = "far future"
       /\ age = 138 => label = "dark energy era"
       /\ label # "late universe"

C20_Witness ==
  /\ lastOp = "universeFrame"
  /\ params.cosmicAgeGyr = 100
  /\ universe.epoch = "dark energy era"

\* ---------------------------------------------------------- weather
\* the operations that call maybeFetchWeather
FetchCalls == {"boot", "frame", "lat", "lon", "enable", "refresh"}
\* the operations that are the completion of a request
Completions == {"fetchOk", "fetchFail"}

\* C21: at most one weather request is outstanding at any time and the
\* in-flight flag is set exactly while one is; a call of maybeFetchWeather
\* made while a request is in flight starts no request, and the completion
\* of the request, with a result or with an error, clears the flag.
C21_AtMostOneRequestInFlight ==
  /\ [](Len(fetches) <= 1 /\ (weather.inflight <=> Len(fetches) = 1))
  /\ [][/\ (weather.inflight /\ lastOp' \in FetchCalls) => fetches' = fetches
        /\ lastOp' \in Completions => (~weather'.inflight /\ fetches' = << >>)]_vars

\* a per-frame call found the request of an earlier moment still in flight
C21_Witness ==
  /\ lastOp = "frame"
  /\ weather.inflight
  /\ Len(fetches) = 1
  /\ fetches[1].t < perfNow

\* C22: weather requests respect a minimum interval.  When the per-frame
\* call (the one caller that does not force) starts a request, no call
\* having seen the location moved since the request before it started,
\* at least 10 minutes of real time have passed since that start, whether
\* that request succeeded or failed.
C22_MinimumIntervalBetweenRequests ==
  [][(/\ lastOp' = "frame"
      /\ Len(fetches') > Len(fetches)
      /\ weatherLog.lastStart # Never
      /\ ~weatherLog.movedSince
      /\ ~Moved(weather, params.lat, params.lon))
     => perfNow - weatherLog.lastStart >= IntervalMs * Res]_vars

\* the sum of the distances in latitude and longitude between the
\* last-known location and the one the callers pass (params.lat, params.lon)
Displacement(w, pr) == Abs(w.lat - pr.lat) + Abs(w.lon - pr.lon)

\* a step is a call of maybeFetchWeather with weather enabled
EnabledCall == lastOp' \in FetchCalls /\ weather'.enabled

\* the call took the last-known location over and reset the cooldown
ResetToNewLocation ==
  /\ weather'.lat = params'.lat
  /\ weather'.lon = params'.lon
  /\ weather'.lastFetchMs = 0
  /\ weather'.updatedAt = Undefined

\* a completed request stored its result, whatever location it was for
ResultStored ==
  lastOp' = "fetchOk" =>
    /\ \E r \in Responses : /\ weather'.tempC = r.temperature_2m
                            /\ weather'.windKph = r.wind_speed_10m
                            /\ weather'.code = r.weather_code
    /\ weather'.updatedAt = WallNow(perfNow)
    /\ ~weather'.inflight

\* C23 as stated: a call of maybeFetchWeather with weather enabled that
\* finds the location different from the last-known one takes the new
\* location over and resets the cooldown (lastFetchMs = 0, updatedAt
\* cleared), in flight or not; the result of a request is stored when it
\* arrives, also when it was for the old location.
C23_AnyDifferenceResetsCooldown ==
  [][/\ (EnabledCall /\ Displacement(weather, params') > 0) => ResetToNewLocation
     /\ ResultStored]_vars

\* C23, with the threshold of the code: a call of maybeFetchWeather with
\* weather enabled that finds the location more than 0.001 degrees (sum of
\* the differences in latitude and longitude) from the last-known one takes
\* the new location over and resets the cooldown, in flight or not; a
\* smaller difference leaves the last-known location and updatedAt alone;
\* the result of a request is stored when it arrives, also when it was for
\* the old location.
C23_MovedResetsCooldown ==
  [][/\ (EnabledCall /\ Displacement(weather, params') > MovedLimit) => ResetToNewLocation
     /\ (EnabledCall /\ Displacement(weather, params') <= MovedLimit) =>
          /\ weather'.lat = weather.lat
          /\ weather'.lon = weather.lon
          /\ weather'.updatedAt = weather.updatedAt
     /\ ResultStored]_vars

\* the location moved while a request was in flight, the last-known
\* location followed at once, and the result for the old location arrived
C23_Witness ==
  /\ lastOp = "fetchOk"
  /\ weatherLog.movedSince
  /\ weatherLog.loadedLat # weather.lat
  /\ weather.lat = params.lat
  /\ weather.code # Undefined

\* what a failed request leaves alone: the readings loaded before, the
\* cooldown, and the astronomical model
FailureIsContained ==
  lastOp' = "fetchFail" =>
    /\ weather'.error \in Failures
    /\ ~weather'.inflight
    /\ weather'.tempC = weather.tempC
    /\ weather'.windKph = weather.windKph
    /\ weather'.code = weather.code
    /\ weather'.updatedAt = weather.updatedAt
    /\ weather'.lastFetchMs = weather.lastFetchMs
    /\ UNCHANGED <<clockVars, solarVars>>

\* the frame that follows a failed request shows its error in the overlay
\* of the Earth panel (weather being enabled in the GUI)
FailureIsShown ==
  (lastOp = "fetchFail" /\ lastOp' = "frame" /\ params.weather) =>
    earth'.weatherLines = ErrorLine(weather.error)

\* C24: a failed weather request is captured as an error string in the
\* weather state and shown in the overlay of the Earth panel; it clears
\* the in-flight flag, leaves the loaded readings (temperature, wind, code,
\* updatedAt) and lastFetchMs unchanged, and changes nothing in the
\* astronomical model (simulated clock, speed, paused, trails).
C24_FailureCapturedAndShown == [][FailureIsContained /\ FailureIsShown]_vars

\* ------------------------------------------------------ the frame loop
\* C25: no error stops the frame loop.  When the per-frame update of one
\* panel fails, the panels after it are still updated in that frame (the
\* universe panel, the last of the loop, receives the snapshot of this
\* frame's tick) and the next frame is still scheduled.
C25_FrameLoopSurvivesPanelError ==
  [][lastOp' = "frameThrew" =>
       /\ rafPending'
       /\ panelT'["universe"] = [now |-> t'.now, sim |-> heap'[t'.sim], dtReal |-> t'.dtReal]]_vars

\* ------------------------------------------------------- pure functions
Cross(a, b) ==
  << a[2] * b[3] - a[3] * b[2], a[3] * b[1] - a[1] * b[3], a[1] * b[2] - a[2] * b[1] >>

\* C26: astroToThreeVec keeps the coordinate system right-handed: for all
\* vectors u and v the cross product of the mapped vectors is the mapped
\* cross product u x v (at scale s the mapped vectors carry s each, their
\* cross product s^2), i.e. the map is a rotation, not a mirror image.
C26_MapperKeepsHandedness ==
  calc.op = "astroToThreeVec" =>
    Cross(calc.mu, calc.mv) = astroToThreeVec(Cross(calc.u, calc.v), calc.scale * calc.scale)

\* C27: in the hour-angle revision, for every sidereal time and right
\* ascension in [0, 24) hours the hour angle haDeg lies in (-180, 180]
\* degrees, and the subsolar longitude -haDeg in [-180, 180).
C27_HourAngleHalfOpenAbove ==
  calc.op = "spin" =>
    /\ calc.ha > 0 - Turn \div 2
    /\ calc.ha <= Turn \div 2
    /\ 0 - calc.ha >= 0 - Turn \div 2
    /\ 0 - calc.ha < Turn \div 2

\* -------------------------------------------------------- pause, resume
\* C28: real time spent paused is never credited.  Every tick, paused or
\* not, moves the last-real-time reference to its own reading of the clock
\* and nothing else moves it; so an unpaused tick, the first after a pause
\* included, advances simulatedTime by speed times the real time since the
\* tick before it (dropping the fraction of a millisecond, as the Date
\* does), never by more.
C28_PausedTimeNotCredited ==
  [][/\ lastOp' \in TickOps => lastRealMs' = perfNow
     /\ lastOp' \notin TickOps => lastRealMs' = lastRealMs
     /\ (lastOp' \in TickOps /\ ~paused) =>
          /\ t'.dtReal = perfNow - lastRealMs
          /\ heap'[simTime'] = AdvancedSimMs(heap[simTime], perfNow - lastRealMs, speed)
          /\ (heap'[simTime'] - heap[simTime]) * Res <= (perfNow - lastRealMs) * speed]_vars

\* the clock was paused at 0, ticked while paused half a millisecond
\* later, was resumed, and ticked again after another half millisecond at
\* 3600x: 1800 ms are credited, not the 3600 ms since pausing
C28_Witness ==
  /\ lastOp = "tick" /\ ~paused /\ speed = 3600
  /\ perfNow = 2 /\ t.dtReal = 1
  /\ pausedTick = perfNow - t.dtReal
  /\ SimMs = WallNow(0) + 1800

\* ----------------------------------------------- weather and location
\* C29: after a change of the observer's location, the first per-frame
\* call that finds no request in flight starts one for the new location,
\* cooldown or not; so after every per-frame call with weather enabled,
\* when no request is in flight and the overlay shows loaded weather
\* (updatedAt set, no error), that weather was fetched for the current
\* location.
C29_LoadedWeatherIsForCurrentLocation ==
  (/\ lastOp = "frame"
   /\ weather.enabled
   /\ ~weather.inflight
   /\ weather.updatedAt # Undefined
   /\ weather.error = NoError)
    => (weatherLog.loadedLat = params.lat /\ weatherLog.loadedLon = params.lon)

====
